---------------------------- MODULE Spec2Model ----------------------------
(***************************************************************************)
(* Stock and price synchronisation of marketplace catalogs with a dealer   *)
(* feed: seller.py (Ozon, count-based catalog pagination) and market.py    *)
(* (Yandex Market, cursor-based pagination, channels FBS and DBS).         *)
(*                                                                         *)
(* Strings that the code inspects character by character (quantity and    *)
(* price tokens) are sequences of one-character strings.  Python lists     *)
(* are sequences; a list object shared by caller and callee is one         *)
(* variable that the callee's action assigns.                              *)
(***************************************************************************)
EXTENDS Integers, Sequences, FiniteSets, TLC

VARIABLES
    prog,            \* which program runs: "seller" or "market"
    pc,              \* position in main / in the function under study
    chan,            \* channel being processed: "OZON", "FBS" or "DBS"
    watch_remnants,  \* the dealer feed (download_stock's result)
    offer_ids,       \* main's offer_ids list (the list object passed around)
    known,           \* the ids get_offer_ids returned (value at return time)
    server,          \* the page responses the marketplace may answer with
    page,            \* page token (market) / last_id (seller) of the next request
    product_list,    \* get_offer_ids: accumulated products
    fetched,         \* requests of the current get_offer_ids call, with their answers
    stocks,          \* create_stocks's result
    prices,          \* create_prices's result
    chunks,          \* list(divide(...)) being iterated by the upload loop
    sent,            \* upload attempts of the current loop: [body, ok]
    failed,          \* an exception has been raised inside main's try
    requests,        \* number of HTTP requests issued to the marketplace
    accepted,        \* number of batches the marketplace accepted
    price_ran,       \* channels whose price step (create_prices + loop) executed
    lst, n,          \* divide's arguments
    gen_i,           \* divide: the generator's cursor i
    gen_out,         \* divide: chunks yielded by the current iteration
    gen_first        \* divide: chunks yielded by the previous iteration

vars == <<prog, pc, chan, watch_remnants, offer_ids, known, server, page,
          product_list, fetched, stocks, prices, chunks, sent, failed,
          requests, accepted, price_ran, lst, n, gen_i, gen_out, gen_first>>

divVars == <<lst, n, gen_i, gen_out, gen_first>>

-----------------------------------------------------------------------------
(* Bounds of the model *)

\* longest feed
MaxFeed == 3
\* most page requests one get_offer_ids call may issue before the model stops it
MaxFetch == 2
\* largest declared total of a count-based page answer
MaxTotal == 3
\* longest list given to divide, and largest chunk size tried
MaxLen == 4
MaxN == 3
\* largest page size ("limit") of a listing request
MaxLimit == 2
\* Chunk sizes of the upload loops, scaled down so that lists of a few
\* entries span several chunks (seller.main uses 100 and 900, market.main
\* 2000).
SellerStockChunk == 1
SellerPriceChunk == 2
MarketStockChunk == 2

-----------------------------------------------------------------------------
(* Generic sequence helpers *)

Min(a, b) == IF a < b THEN a ELSE b

RECURSIVE Flatten(_)
Flatten(ss) == IF ss = <<>> THEN <<>> ELSE Head(ss) \o Flatten(Tail(ss))

RECURSIVE SeqsUpTo(_, _)
SeqsUpTo(S, k) ==
    IF k = 0 THEN {<<>>}
    ELSE LET shorter == SeqsUpTo(S, k - 1)
         IN  shorter \cup {Append(s, x) : s \in shorter, x \in S}

Range(s) == {s[k] : k \in 1..Len(s)}

NoDup(s) == \A a, b \in 1..Len(s) : a # b => s[a] # s[b]

IsPrefix(s, t) == Len(s) <= Len(t) /\ SubSeq(t, 1, Len(s)) = s

\* x in list
In(x, s) == \E k \in 1..Len(s) : s[k] = x

\* a create_stocks that forgets offer_ids.remove(...)
list_remove_forgotten(s, x) == s

\* list.remove(x): drops the first occurrence of x (x is in the list)
RECURSIVE list_remove(_, _)
list_remove(s, x) ==
    IF s = <<>> THEN <<>>
    ELSE IF Head(s) = x THEN Tail(s)
    ELSE <<Head(s)>> \o list_remove(Tail(s), x)


-----------------------------------------------------------------------------
(* Tokens and their conversions *)

Digits == {"0", "1", "2", "3", "4", "5", "6", "7", "8", "9"}

DigitVal(c) ==
    CASE c = "0" -> 0 [] c = "1" -> 1 [] c = "2" -> 2 [] c = "3" -> 3
      [] c = "4" -> 4 [] c = "5" -> 5 [] c = "6" -> 6 [] c = "7" -> 7
      [] c = "8" -> 8 [] c = "9" -> 9

\* value of a non-empty string of decimal digits
RECURSIVE DigitsVal(_)
DigitsVal(s) ==
    IF Len(s) = 1 THEN DigitVal(s[1])
    ELSE 10 * DigitsVal(SubSeq(s, 1, Len(s) - 1)) + DigitVal(s[Len(s)])

AllDigits(s) == s # <<>> /\ \A k \in 1..Len(s) : s[k] \in Digits

\* Python's int(str): an optional sign, then decimal digits; anything else
\* raises ValueError (ok = FALSE).  Surrounding blanks and digit-group
\* underscores, which int() also accepts, do not occur in the tokens used.
int(s) ==
    IF s # <<>> /\ s[1] \in {"-", "+"}
    THEN IF AllDigits(Tail(s))
         THEN [ok |-> TRUE,
               val |-> IF s[1] = "-" THEN 0 - DigitsVal(Tail(s))
                       ELSE DigitsVal(Tail(s))]
         ELSE [ok |-> FALSE, val |-> 0]
    ELSE IF AllDigits(s) THEN [ok |-> TRUE, val |-> DigitsVal(s)]
         ELSE [ok |-> FALSE, val |-> 0]

\* price.split(".")[0]: the text before the first "."
RECURSIVE split_dot_head(_)
split_dot_head(s) ==
    IF s = <<>> \/ Head(s) = "." THEN <<>>
    ELSE <<Head(s)>> \o split_dot_head(Tail(s))

\* re.sub("[^0-9]", "", text): the digits of text, in order
RECURSIVE sub_non_digits(_)
sub_non_digits(s) ==
    IF s = <<>> THEN <<>>
    ELSE (IF Head(s) \in Digits THEN <<Head(s)>> ELSE <<>>)
         \o sub_non_digits(Tail(s))

price_conversion(price) == sub_non_digits(split_dot_head(price))

\* a quantity rule without the "1" branch
stock_count_one_is_one(count) ==
    IF count = <<">", "1", "0">> THEN [ok |-> TRUE, val |-> 100]
    ELSE int(count)

\* the quantity rule of create_stocks: ">10" is 100, "1" is 0, else int()
stock_count(count) ==
    IF count = <<">", "1", "0">> THEN [ok |-> TRUE, val |-> 100]
    ELSE IF count = <<"1">> THEN [ok |-> TRUE, val |-> 0]
    ELSE int(count)

-----------------------------------------------------------------------------
(* The data the programs work on *)

\* offer ids a marketplace may list, and a feed code listed nowhere
Ids == {"A", "B", "C"}
Unlisted == "X"

\* A feed row: the columns "Код", "Количество", "Цена" of the dealer sheet.
Row(code, count, price) == [Kod |-> code, Kolichestvo |-> count, Tsena |-> price]

T_gt10  == <<">", "1", "0">>
T_one   == <<"1">>
T_seven == <<"7">>
T_neg   == <<"-", "3">>
T_twelve == <<"1", "2">>
T_bad   == <<"a", "b", "c">>

\* "5'990.00 r." (the sheet writes the currency in Cyrillic; only the
\* non-digit-ness of those characters matters to price_conversion)
P_5990 == <<"5", "'", "9", "9", "0", ".", "0", "0", " ", "r", ".">>
P_100  == <<"1", "0", "0">>
P_200  == <<"2", "0", "0", ".", "5", "0">>
P_1200 == <<"1", "'", "2", "0", "0">>
P_3    == <<"3", ".", "9", "9">>
P_none == <<"n", "/", "a">>

FeedRows ==
    { Row("A", T_gt10, P_5990),
      Row("A", T_seven, P_100),
      Row("B", T_one, P_200),
      Row("B", T_neg, P_1200),
      Row("C", T_twelve, P_3),
      Row("A", T_bad, P_100),
      Row("B", T_seven, P_none),
      Row(Unlisted, T_bad, P_none) }

\* the rows main's runs draw from
MainRows ==
    { Row("A", T_gt10, P_5990),
      Row("B", T_seven, P_200),
      Row("A", T_bad, P_100) }

Feeds == SeqsUpTo(FeedRows, MaxFeed)
MainFeeds == SeqsUpTo(MainRows, MaxFeed)

\* duplicate-free lists of offer ids
IdLists == {s \in SeqsUpTo(Ids, Cardinality(Ids)) : NoDup(s)}

-----------------------------------------------------------------------------
(* seller.py: create_stocks, create_prices *)

\* The first loop.  offer_ids is the caller's list: the loop removes from
\* it, and what is left of it when int() raises stays removed.
RECURSIVE create_stocks_loop(_, _, _)
create_stocks_loop(remnants, ids, acc) ==
    IF remnants = <<>>
    THEN [raised |-> FALSE, stocks |-> acc, offer_ids |-> ids]
    ELSE LET watch == Head(remnants)
             stock == stock_count(watch.Kolichestvo)
         IN  IF In(watch.Kod, ids)
             THEN IF stock.ok
                  THEN create_stocks_loop(
                           Tail(remnants),
                           list_remove(ids, watch.Kod),
                           Append(acc, [offer_id |-> watch.Kod, stock |-> stock.val]))
                  ELSE [raised |-> TRUE, stocks |-> <<>>, offer_ids |-> ids]
             ELSE create_stocks_loop(Tail(remnants), ids, acc)

\* create_stocks(watch_remnants, offer_ids): the returned list, the state
\* the call leaves the caller's offer_ids in, and whether it raised.
create_stocks(remnants, ids) ==
    LET r == create_stocks_loop(remnants, ids, <<>>)
    IN  IF r.raised THEN r
        ELSE [r EXCEPT !.stocks =
                 r.stocks \o [k \in 1..Len(r.offer_ids) |->
                                 [offer_id |-> r.offer_ids[k], stock |-> 0]]]

\* a create_prices without the "in offer_ids" test
create_prices_unfiltered(remnants, ids) ==
    [k \in 1..Len(remnants) |->
        [offer_id |-> remnants[k].Kod, old_price |-> <<"0">>,
         price |-> price_conversion(remnants[k].Tsena)]]

RECURSIVE create_prices(_, _)
create_prices(remnants, ids) ==
    IF remnants = <<>> THEN <<>>
    ELSE LET watch == Head(remnants)
         IN  (IF In(watch.Kod, ids)
              THEN <<[offer_id |-> watch.Kod, old_price |-> <<"0">>,
                      price |-> price_conversion(watch.Tsena)]>>
              ELSE <<>>)
             \o create_prices(Tail(remnants), ids)

-----------------------------------------------------------------------------
(* market.py: create_stocks, create_prices *)

\* A stock entry is {"sku", "warehouseId", "items": [{"count", "type",
\* "updatedAt"}]}; type is always "FIT" and updatedAt is one timestamp per
\* call, so an entry is written here as its sku, warehouseId and count.

RECURSIVE market_create_stocks_loop(_, _, _, _)
market_create_stocks_loop(remnants, ids, warehouse_id, acc) ==
    IF remnants = <<>>
    THEN [raised |-> FALSE, stocks |-> acc, offer_ids |-> ids]
    ELSE LET watch == Head(remnants)
             stock == stock_count(watch.Kolichestvo)
         IN  IF In(watch.Kod, ids)
             THEN IF stock.ok
                  THEN market_create_stocks_loop(
                           Tail(remnants),
                           list_remove(ids, watch.Kod),
                           warehouse_id,
                           Append(acc, [sku |-> watch.Kod,
                                        warehouseId |-> warehouse_id,
                                        count |-> stock.val]))
                  ELSE [raised |-> TRUE, stocks |-> <<>>, offer_ids |-> ids]
             ELSE market_create_stocks_loop(Tail(remnants), ids, warehouse_id, acc)

market_create_stocks(remnants, ids, warehouse_id) ==
    LET r == market_create_stocks_loop(remnants, ids, warehouse_id, <<>>)
    IN  IF r.raised THEN r
        ELSE [r EXCEPT !.stocks =
                 r.stocks \o [k \in 1..Len(r.offer_ids) |->
                                 [sku |-> r.offer_ids[k],
                                  warehouseId |-> warehouse_id,
                                  count |-> 0]]]

\* int(price_conversion(...)) raises when no digit is left
RECURSIVE market_create_prices_loop(_, _, _)
market_create_prices_loop(remnants, ids, acc) ==
    IF remnants = <<>> THEN [raised |-> FALSE, prices |-> acc]
    ELSE LET watch == Head(remnants)
             value == int(price_conversion(watch.Tsena))
         IN  IF In(watch.Kod, ids)
             THEN IF value.ok
                  THEN market_create_prices_loop(
                           Tail(remnants), ids,
                           Append(acc, [id |-> watch.Kod, value |-> value.val,
                                        currencyId |-> "RUR"]))
                  ELSE [raised |-> TRUE, prices |-> <<>>]
             ELSE market_create_prices_loop(Tail(remnants), ids, acc)

market_create_prices(remnants, ids) == market_create_prices_loop(remnants, ids, <<>>)


-----------------------------------------------------------------------------
(* Calls as main, upload_stocks and upload_prices make them *)

\* WAREHOUSE_FBS_ID / WAREHOUSE_DBS_ID of the environment
warehouse_of(c) == IF c = "DBS" THEN "WH_DBS" ELSE "WH_FBS"

call_create_stocks(p, c, remnants, ids) ==
    IF p = "seller" THEN create_stocks(remnants, ids)
    ELSE market_create_stocks(remnants, ids, warehouse_of(c))

call_create_prices(p, remnants, ids) ==
    IF p = "seller" THEN [raised |-> FALSE, prices |-> create_prices(remnants, ids)]
    ELSE market_create_prices(remnants, ids)

\* reading the entries of either program
StockSku(e) == IF prog = "seller" THEN e.offer_id ELSE e.sku
StockQty(e) == IF prog = "seller" THEN e.stock ELSE e.count
PriceSku(e) == IF prog = "seller" THEN e.offer_id ELSE e.id

Skus(entries) == [k \in 1..Len(entries) |-> StockSku(entries[k])]
Qtys(entries) == [k \in 1..Len(entries) |-> StockQty(entries[k])]
PriceSkus(entries) == [k \in 1..Len(entries) |-> PriceSku(entries[k])]

-----------------------------------------------------------------------------
(* Reconciliation on its own: create_stocks / create_prices applied to     *)
(* every feed and every duplicate-free list of known offer ids             *)

mainIdle ==
    /\ chan = "-" /\ server = {} /\ page = "" /\ product_list = <<>>
    /\ fetched = <<>> /\ chunks = <<>> /\ sent = <<>> /\ failed = FALSE
    /\ requests = 0 /\ accepted = 0 /\ price_ran = {}

divIdle == lst = <<>> /\ n = 1 /\ gen_i = 0 /\ gen_out = <<>> /\ gen_first = <<>>

InitReconcile ==
    /\ prog \in {"seller", "market"}
    /\ pc = "rec_start"
    /\ watch_remnants \in Feeds
    /\ offer_ids \in IdLists
    /\ known = offer_ids
    /\ stocks = <<>> /\ prices = <<>>
    /\ mainIdle /\ divIdle

\* stocks = create_stocks(watch_remnants, offer_ids)
CallCreateStocks ==
    /\ pc = "rec_start"
    /\ LET r == call_create_stocks(prog, "FBS", watch_remnants, offer_ids)
       IN  /\ offer_ids' = r.offer_ids
           /\ stocks' = r.stocks
           /\ pc' = IF r.raised THEN "rec_stocks_raised" ELSE "rec_stocks_done"
    /\ UNCHANGED <<prog, chan, watch_remnants, known, server, page, product_list,
                   fetched, prices, chunks, sent, failed, requests, accepted,
                   price_ran>>
    /\ UNCHANGED divVars

\* prices = create_prices(watch_remnants, offer_ids)
CallCreatePrices ==
    /\ pc = "rec_start"
    /\ LET r == call_create_prices(prog, watch_remnants, offer_ids)
       IN  /\ prices' = r.prices
           /\ pc' = IF r.raised THEN "rec_prices_raised" ELSE "rec_prices_done"
    /\ UNCHANGED <<prog, chan, watch_remnants, offer_ids, known, server, page,
                   product_list, fetched, stocks, chunks, sent, failed, requests,
                   accepted, price_ran>>
    /\ UNCHANGED divVars

NextReconcile == CallCreateStocks \/ CallCreatePrices

SpecReconcile == InitReconcile /\ [][NextReconcile]_vars

\* feed facts used by the claims
Codes(remnants) == [k \in 1..Len(remnants) |-> remnants[k].Kod]
Occurrences(x, s) == Cardinality({k \in 1..Len(s) : s[k] = x})

\* the elements of s at the positions I, in order
PickAt(s, I) ==
    [k \in 1..Cardinality(I) |->
        s[CHOOSE i \in I : Cardinality({j \in I : j < i}) = k - 1]]

FeedHasHardCases ==
    /\ \E id \in Range(known) : Occurrences(id, Codes(watch_remnants)) >= 2
    /\ In(Unlisted, Codes(watch_remnants))
    /\ \E id \in Range(known) : ~In(id, Codes(watch_remnants))

C2_CallerListUnchanged ==
    pc \in {"rec_stocks_done", "rec_stocks_raised"} => offer_ids = known

\* the quantity the claim assigns to a token
ClaimedQty(count) ==
    IF count = T_gt10 THEN 100 ELSE IF count = T_one THEN 0 ELSE int(count).val

FirstMatches ==
    {k \in 1..Len(watch_remnants) :
        /\ In(watch_remnants[k].Kod, known)
        /\ \A j \in 1..(k - 1) : watch_remnants[j].Kod # watch_remnants[k].Kod}

(* C7: the stock list is the first record of every known code that the     *)
(* feed has, in feed order, with its normalized quantity (">10" is 100,    *)
(* "1" is 0, otherwise the integer written), followed by a zero entry for  *)
(* every known id without a record, in the order of the known list.        *)
C7_FirstMatchThenFillers ==
    pc = "rec_stocks_done" =>
        LET matched == PickAt(watch_remnants, FirstMatches)
            fillers == SelectSeq(known, LAMBDA id : ~In(id, Codes(watch_remnants)))
        IN  /\ Skus(stocks) = Codes(matched) \o fillers
            /\ Qtys(stocks) =
                   [k \in 1..Len(matched) |-> ClaimedQty(matched[k].Kolichestvo)]
                   \o [k \in 1..Len(fillers) |-> 0]

C7_Witness ==
    /\ pc = "rec_stocks_done"
    /\ \E id \in Range(known) : ~In(id, Codes(watch_remnants))
    /\ \E a, b \in 1..Len(watch_remnants) :
          /\ a < b /\ watch_remnants[a].Kod = watch_remnants[b].Kod
          /\ In(watch_remnants[a].Kod, known)
          /\ watch_remnants[a].Kolichestvo = T_gt10
          /\ watch_remnants[b].Kolichestvo = T_seven
    /\ \E k \in 1..Len(watch_remnants) :
          In(watch_remnants[k].Kod, known) /\ watch_remnants[k].Kolichestvo = T_one

(* C8: create_prices emits, in feed order, one entry per feed record whose *)
(* code is a known offer id (k entries for a code met k times, none for an *)
(* unlisted code, no filler) and leaves the known offer ids as they were.  *)
C8_OnePricePerMatchingRecord ==
    pc = "rec_prices_done" =>
        /\ PriceSkus(prices) =
               SelectSeq(Codes(watch_remnants), LAMBDA c : In(c, known))
        /\ offer_ids = known

C8_Witness == pc = "rec_prices_done" /\ FeedHasHardCases


(* C11: every stock entry create_stocks emits has a quantity that is an    *)
(* integer >= 0, whenever the quantity tokens of the feed are base-10      *)
(* integers (negative ones included) or the shorthands ">10" and "1".      *)
C11_QuantityNotNegative ==
    pc = "rec_stocks_done" =>
        \A k \in 1..Len(stocks) : StockQty(stocks[k]) \in Nat

-----------------------------------------------------------------------------
(* seller.py: divide, a generator *)

\* a slice one element short
divide_slice_short(l, i, k) == SubSeq(l, i + 1, Min(i + k - 1, Len(l)))

\* lst[i : i + n]
divide_slice(l, i, k) == SubSeq(l, i + 1, Min(i + k, Len(l)))

\* list(divide(lst, n)) for n > 0: every chunk the generator yields
RECURSIVE divide_from(_, _, _)
divide_from(l, i, k) ==
    IF i >= Len(l) THEN <<>>
    ELSE <<divide_slice(l, i, k)>> \o divide_from(l, i + k, k)

divide(l, k) == divide_from(l, 0, k)

InitDivide ==
    /\ lst \in SeqsUpTo({"a", "b"}, MaxLen)
    /\ n \in 1..MaxN
    /\ gen_i = 0 /\ gen_out = <<>> /\ gen_first = <<>>
    /\ pc = "div_first"
    /\ prog = "seller" /\ watch_remnants = <<>> /\ offer_ids = <<>> /\ known = <<>>
    /\ stocks = <<>> /\ prices = <<>>
    /\ mainIdle

\* next(generator): the loop body runs once and yields a chunk
divide_next ==
    /\ pc \in {"div_first", "div_second"}
    /\ gen_i < Len(lst)
    /\ gen_out' = Append(gen_out, divide_slice(lst, gen_i, n))
    /\ gen_i' = gen_i + n
    /\ UNCHANGED <<lst, n, gen_first, pc>>
    /\ UNCHANGED <<prog, chan, watch_remnants, offer_ids, known, server, page,
                   product_list, fetched, stocks, prices, chunks, sent, failed,
                   requests, accepted, price_ran>>

\* next(generator) when range() is exhausted: StopIteration
divide_stop ==
    /\ pc \in {"div_first", "div_second"}
    /\ gen_i >= Len(lst)
    /\ pc' = IF pc = "div_first" THEN "div_first_done" ELSE "div_second_done"
    /\ UNCHANGED divVars
    /\ UNCHANGED <<prog, chan, watch_remnants, offer_ids, known, server, page,
                   product_list, fetched, stocks, prices, chunks, sent, failed,
                   requests, accepted, price_ran>>

\* divide(lst, n) called again on the same list: a new generator object
divide_again ==
    /\ pc = "div_first_done"
    /\ gen_first' = gen_out
    /\ gen_out' = <<>>
    /\ gen_i' = 0
    /\ pc' = "div_second"
    /\ UNCHANGED <<lst, n>>
    /\ UNCHANGED <<prog, chan, watch_remnants, offer_ids, known, server, page,
                   product_list, fetched, stocks, prices, chunks, sent, failed,
                   requests, accepted, price_ran>>

NextDivide == divide_next \/ divide_stop \/ divide_again

SpecDivide == InitDivide /\ [][NextDivide]_vars

ChunksAreDivision(cs) ==
    /\ Flatten(cs) = lst
    /\ \A k \in 1..Len(cs) :
          Len(cs[k]) = IF k < Len(cs) \/ Len(lst) % n = 0 THEN n ELSE Len(lst) % n
    /\ (lst = <<>> => cs = <<>>)

-----------------------------------------------------------------------------
(* get_offer_ids: catalog pagination *)

\* Python's None, as a page token
None == "<None>"

\* "result" objects of get_product_list.  seller.py reads items, total and
\* last_id; market.py reads offerMappingEntries and paging.nextPageToken.
seller_product(id) == [offer_id |-> id]
market_product(id) == [offer |-> [shopSku |-> id]]

PageIds == {<<>>, <<"A">>, <<"B", "C">>}

SellerResult(ids, total, last_id) ==
    [items |-> [k \in 1..Len(ids) |-> seller_product(ids[k])],
     total |-> total, last_id |-> last_id]

MarketResult(ids, token) ==
    [offerMappingEntries |-> [k \in 1..Len(ids) |-> market_product(ids[k])],
     paging |-> [nextPageToken |-> token]]

\* every answer the model lets a marketplace give
AllResults(p) ==
    IF p = "seller"
    THEN {SellerResult(ids, t, l) : ids \in PageIds, t \in 0..MaxTotal, l \in {"", "l1"}}
    ELSE {MarketResult(ids, t) : ids \in PageIds, t \in {None, "", "t1", "t2"}}

\* the answers of the marketplaces main's runs talk to
MainResults(p) ==
    IF p = "seller"
    THEN {SellerResult(<<"A">>, 3, "l1"), SellerResult(<<"B", "C">>, 3, ""),
          SellerResult(<<"A">>, 2, "l1"), SellerResult(<<"B", "C">>, 2, "")}
    ELSE {MarketResult(<<"A">>, "t1"), MarketResult(<<"B", "C">>, ""),
          MarketResult(<<"A">>, None)}

result_items(p, r) == IF p = "seller" THEN r.items ELSE r.offerMappingEntries

\* the value the loop stores for the next request
result_next(p, r) == IF p = "seller" THEN r.last_id ELSE r.paging.nextPageToken

\* the loop's break condition, evaluated after the page was appended
loop_breaks(p, r, products) ==
    IF p = "seller" THEN r.total = Len(products)
    ELSE r.paging.nextPageToken \in {None, ""}

\* the projection loop at the end of get_offer_ids
project_offer_ids(p, products) ==
    [k \in 1..Len(products) |->
        IF p = "seller" THEN products[k].offer_id ELSE products[k].offer.shopSku]

\* where main continues after get_offer_ids returned
after_get_offer_ids(p) == IF p = "seller" THEN "download" ELSE "create_stocks"

\* One iteration of get_offer_ids's loop: a get_product_list request, which
\* raises (raise_for_status, timeout, connection error) or answers; on the
\* break the function projects the ids and returns to main.
FetchPage ==
    /\ pc = "fetch"
    /\ Len(fetched) < MaxFetch
    /\ \E r \in server, ok \in BOOLEAN :
          /\ requests' = requests + 1
          /\ fetched' = Append(fetched, [token |-> page, ok |-> ok,
                                         ids |-> IF ok THEN project_offer_ids(prog, result_items(prog, r))
                                                 ELSE <<>>,
                                         next |-> IF ok THEN result_next(prog, r) ELSE "",
                                         total |-> IF ok /\ prog = "seller" THEN r.total ELSE 0])
          /\ IF ~ok
             THEN /\ failed' = TRUE
                  /\ pc' = "except"
                  /\ UNCHANGED <<product_list, page, offer_ids, known>>
             ELSE LET products == product_list \o result_items(prog, r)
                  IN  /\ product_list' = products
                      /\ page' = result_next(prog, r)
                      /\ failed' = failed
                      /\ IF loop_breaks(prog, r, products)
                         THEN /\ offer_ids' = project_offer_ids(prog, products)
                              /\ known' = offer_ids'
                              /\ pc' = after_get_offer_ids(prog)
                         ELSE /\ pc' = "fetch"
                              /\ UNCHANGED <<offer_ids, known>>
    /\ UNCHANGED <<prog, chan, watch_remnants, server, stocks, prices, chunks,
                   sent, accepted, price_ran>>
    /\ UNCHANGED divVars

InitCatalog ==
    /\ prog \in {"seller", "market"}
    /\ chan = IF prog = "seller" THEN "OZON" ELSE "FBS"
    /\ server = AllResults(prog)
    /\ pc = "fetch"
    /\ page = "" /\ product_list = <<>> /\ fetched = <<>>
    /\ watch_remnants = <<>> /\ offer_ids = <<>> /\ known = <<>>
    /\ stocks = <<>> /\ prices = <<>> /\ chunks = <<>> /\ sent = <<>>
    /\ failed = FALSE /\ requests = 0 /\ accepted = 0 /\ price_ran = {}
    /\ divIdle

NextCatalog == FetchPage

SpecCatalog == InitCatalog /\ [][NextCatalog]_vars


-----------------------------------------------------------------------------
(* main of seller.py and of market.py *)

stock_chunk(p) == IF p = "seller" THEN SellerStockChunk ELSE MarketStockChunk

\* a loop that sends the first chunk again and again
next_chunk_first(cs, done) == cs[1]

\* the chunk the for loop over list(divide(...)) hands to the upload next
next_chunk(cs, done) == cs[Len(done) + 1]

\* an error boundary around each channel: market.main goes on with DBS
after_except_next_channel(p, c) ==
    IF p = "market" /\ c = "FBS" THEN [pc |-> "fetch", chan |-> "DBS"]
    ELSE [pc |-> "done", chan |-> c]

\* the except clauses print and main returns
after_except(p, c) == [pc |-> "done", chan |-> c]

Init ==
    /\ prog \in {"seller", "market"}
    /\ chan = IF prog = "seller" THEN "OZON" ELSE "FBS"
    /\ pc = IF prog = "seller" THEN "fetch" ELSE "download"
    /\ server = MainResults(prog)
    /\ page = "" /\ product_list = <<>> /\ fetched = <<>>
    /\ watch_remnants = <<>> /\ offer_ids = <<>> /\ known = <<>>
    /\ stocks = <<>> /\ prices = <<>> /\ chunks = <<>> /\ sent = <<>>
    /\ failed = FALSE /\ requests = 0 /\ accepted = 0 /\ price_ran = {}
    /\ divIdle

\* watch_remnants = download_stock(): inside the try in seller.main, before
\* it in market.main, where an exception ends the program with a traceback.
Download ==
    /\ pc = "download"
    /\ \E feed \in MainFeeds, ok \in BOOLEAN :
          IF ok
          THEN /\ watch_remnants' = feed
               /\ pc' = IF prog = "seller" THEN "create_stocks" ELSE "fetch"
               /\ failed' = failed
          ELSE /\ watch_remnants' = watch_remnants
               /\ pc' = IF prog = "seller" THEN "except" ELSE "crashed"
               /\ failed' = (prog = "seller")
    /\ UNCHANGED <<prog, chan, offer_ids, known, server, page, product_list,
                   fetched, stocks, prices, chunks, sent, requests, accepted,
                   price_ran>>
    /\ UNCHANGED divVars

\* stocks = create_stocks(watch_remnants, offer_ids[, warehouse]) and the
\* list(divide(stocks, ...)) the upload loop iterates
CreateStocks ==
    /\ pc = "create_stocks"
    /\ LET r == call_create_stocks(prog, chan, watch_remnants, offer_ids)
           cs == divide(r.stocks, stock_chunk(prog))
       IN  /\ offer_ids' = r.offer_ids
           /\ IF r.raised
              THEN /\ failed' = TRUE
                   /\ pc' = "except"
                   /\ UNCHANGED <<stocks, chunks, sent>>
              ELSE /\ stocks' = r.stocks
                   /\ chunks' = cs
                   /\ sent' = <<>>
                   /\ failed' = failed
                   /\ pc' = IF cs = <<>> THEN "price_step" ELSE "upload_stocks"
    /\ fetched' = <<>>
    /\ UNCHANGED <<prog, chan, watch_remnants, known, server, page, product_list,
                   prices, requests, accepted, price_ran>>
    /\ UNCHANGED divVars

\* update_stocks(some_stock, ...): one request, which raises or is accepted
UploadStocks ==
    /\ pc = "upload_stocks"
    /\ \E ok \in BOOLEAN :
          /\ sent' = Append(sent, [body |-> next_chunk(chunks, sent), ok |-> ok])
          /\ requests' = requests + 1
          /\ accepted' = IF ok THEN accepted + 1 ELSE accepted
          /\ failed' = IF ok THEN failed ELSE TRUE
          /\ pc' = IF ~ok THEN "except"
                   ELSE IF Len(sent') = Len(chunks) THEN "price_step"
                   ELSE "upload_stocks"
    /\ UNCHANGED <<prog, chan, watch_remnants, offer_ids, known, server, page,
                   product_list, fetched, stocks, prices, chunks, price_ran>>
    /\ UNCHANGED divVars

\* seller.main: prices = create_prices(watch_remnants, offer_ids) and the
\* list(divide(prices, 900)) the upload loop iterates
CreatePrices ==
    /\ pc = "price_step"
    /\ prog = "seller"
    /\ LET ps == create_prices(watch_remnants, offer_ids)
           cs == divide(ps, SellerPriceChunk)
       IN  /\ prices' = ps
           /\ chunks' = cs
           /\ pc' = IF cs = <<>> THEN "done" ELSE "upload_prices"
    /\ sent' = <<>>
    /\ price_ran' = price_ran \cup {chan}
    /\ UNCHANGED <<prog, chan, watch_remnants, offer_ids, known, server, page,
                   product_list, fetched, stocks, failed, requests, accepted>>
    /\ UNCHANGED divVars

\* update_price(some_price, ...)
UploadPrices ==
    /\ pc = "upload_prices"
    /\ \E ok \in BOOLEAN :
          /\ sent' = Append(sent, [body |-> next_chunk(chunks, sent), ok |-> ok])
          /\ requests' = requests + 1
          /\ accepted' = IF ok THEN accepted + 1 ELSE accepted
          /\ failed' = IF ok THEN failed ELSE TRUE
          /\ pc' = IF ~ok THEN "except"
                   ELSE IF Len(sent') = Len(chunks) THEN "done"
                   ELSE "upload_prices"
    /\ UNCHANGED <<prog, chan, watch_remnants, offer_ids, known, server, page,
                   product_list, fetched, stocks, prices, chunks, price_ran>>
    /\ UNCHANGED divVars

\* market.main: upload_prices(watch_remnants, campaign_id, market_token).
\* upload_prices is an async def and main neither awaits the call nor runs
\* an event loop: the call builds a coroutine object that is dropped, and
\* no statement of upload_prices's body runs.  main goes on with DBS, or
\* returns.
CallUploadPrices ==
    /\ pc = "price_step"
    /\ prog = "market"
    /\ IF chan = "FBS"
       THEN /\ chan' = "DBS"
            /\ pc' = "fetch"
            /\ page' = "" /\ product_list' = <<>> /\ fetched' = <<>>
       ELSE /\ pc' = "done"
            /\ UNCHANGED <<chan, page, product_list, fetched>>
    /\ UNCHANGED <<prog, watch_remnants, offer_ids, known, server, stocks, prices,
                   chunks, sent, failed, requests, accepted, price_ran>>
    /\ UNCHANGED divVars

\* except ...: print(...); main returns
Except ==
    /\ pc = "except"
    /\ LET to == after_except(prog, chan)
       IN  /\ pc' = to.pc
           /\ chan' = to.chan
    /\ page' = "" /\ product_list' = <<>> /\ fetched' = <<>>
    /\ UNCHANGED <<prog, watch_remnants, offer_ids, known, server, stocks, prices,
                   chunks, sent, failed, requests, accepted, price_ran>>
    /\ UNCHANGED divVars

Next ==
    \/ Download
    \/ FetchPage
    \/ CreateStocks
    \/ UploadStocks
    \/ CreatePrices
    \/ UploadPrices
    \/ CallUploadPrices
    \/ Except

Spec == Init /\ [][Next]_vars


-----------------------------------------------------------------------------
(* Claims about main's runs *)

SentBodies == [k \in 1..Len(sent) |-> sent[k].body]
OkCount == Cardinality({k \in 1..Len(sent) : sent[k].ok})

\* a channel whose processing ended without any exception
Finished(c) ==
    \/ pc = "done" /\ ~failed /\ chan = c
    \/ prog = "market" /\ chan = "DBS" /\ c = "FBS"

(* C3: a channel run in which no step fails has executed its price step    *)
(* (price reconciliation and the push of the price batches, after the      *)
(* stock batches) when the channel is done and before the next channel     *)
(* starts - in seller.main and for FBS and DBS in market.main.             *)
C3_PriceStepExecuted ==
    \A c \in {"OZON", "FBS", "DBS"} : Finished(c) => c \in price_ran

\* the list the current upload loop was built from
DispatchedList ==
    IF chan \in price_ran THEN divide(prices, SellerPriceChunk)
    ELSE divide(stocks, stock_chunk(prog))

(* C4: an upload loop sends the chunks of the reconciled list one by one   *)
(* in chunk order, each at most once; every attempt before the last was    *)
(* accepted, a failed attempt is the last of its loop (no retry, no later  *)
(* chunk), and a loop that ends without failure has sent every chunk.      *)
C4_SequentialDispatch ==
    /\ chunks = DispatchedList
    /\ Len(sent) <= Len(chunks)
    /\ \A k \in 1..Len(sent) : sent[k].body = chunks[k]
    /\ \A k \in 1..(Len(sent) - 1) : sent[k].ok
    /\ (sent # <<>> /\ ~sent[Len(sent)].ok) => failed /\ pc \in {"except", "done"}
    /\ (pc = "price_step" \/ (pc = "done" /\ ~failed)) =>
           Len(sent) = Len(chunks) /\ OkCount = Len(sent)
    /\ (prog = "seller" /\ chan \notin price_ran) => accepted = OkCount

C4_Witness ==
    /\ pc = "done" /\ failed
    /\ Len(chunks) = 3 /\ Len(sent) = 2
    /\ sent[1].ok /\ ~sent[2].ok
    /\ accepted = 1

(* C5: once a step has failed the run stays failed and issues no further   *)
(* request to any channel, and the number of accepted batches never goes   *)
(* down (nothing is rolled back).                                          *)
C5_GlobalAbort ==
    [][/\ failed => (failed' /\ requests' = requests /\ accepted' = accepted)
       /\ accepted' >= accepted]_vars

C5_Witness ==
    /\ prog = "market" /\ chan = "FBS"
    /\ pc = "done" /\ failed
    /\ accepted >= 1

(* C9: in a failure-free run of seller.main the price entries pushed are   *)
(* those of the feed records whose code is in the catalog fetched at the   *)
(* start of the run.                                                       *)
C9_PricesForFetchedCatalog ==
    (prog = "seller" /\ pc = "done" /\ ~failed) =>
        Flatten(SentBodies) = create_prices(watch_remnants, known)

-----------------------------------------------------------------------------
(* Claims about get_offer_ids *)

Returned == pc = after_get_offer_ids(prog)

FetchedIds(k) == Flatten([j \in 1..k |-> fetched[j].ids])

\* the stop rule of the claim, on the k-th page fetched
StopsAt(k) ==
    IF prog = "seller" THEN fetched[k].total = Len(FetchedIds(k))
    ELSE fetched[k].next \in {None, ""}

\* the result is the ids of all pages fetched, in page order; each request
\* carries the previous page's token; fetching stops at the first page that
\* satisfies the stop rule, and at a failing request
PaginationRule ==
    /\ \A k \in 1..Len(fetched) :
          fetched[k].token = IF k = 1 THEN "" ELSE fetched[k - 1].next
    /\ \A k \in 1..(Len(fetched) - 1) : fetched[k].ok /\ ~StopsAt(k)
    /\ Returned =>
          /\ fetched # <<>>
          /\ fetched[Len(fetched)].ok /\ StopsAt(Len(fetched))
          /\ offer_ids = FetchedIds(Len(fetched))
    /\ (fetched # <<>> /\ ~fetched[Len(fetched)].ok) => pc = "except" /\ failed
    /\ pc = "fetch" /\ fetched # <<>> =>
          fetched[Len(fetched)].ok /\ ~StopsAt(Len(fetched))

\* an empty first page ends the call: empty result after one request
EmptyFirstPageRule ==
    (fetched # <<>> /\ fetched[1].ok /\ fetched[1].ids = <<>>) =>
        Len(fetched) = 1 /\ Returned /\ offer_ids = <<>>

(* C10: get_offer_ids returns the offer ids of the pages it fetched, in    *)
(* page order, passing each page's token to the next request and stopping  *)
(* at the first page that satisfies the stop rule (empty or absent next    *)
(* token; accumulated count equal to the declared total); an empty first   *)
(* page gives an empty result after exactly one fetch; a failing fetch     *)
(* propagates with no further fetch.                                       *)
C10_Pagination == PaginationRule /\ EmptyFirstPageRule


-----------------------------------------------------------------------------
(* seller.get_offer_ids against a finite listing: every request returns    *)

\* last_id values: "" before the first item, PosTokens[k] after the k-th
PosTokens == <<"p1", "p2", "p3", "p4", "p5">>

PosToken(k) == IF k = 0 THEN "" ELSE PosTokens[k]

Position(last_id) ==
    IF last_id = "" THEN 0 ELSE CHOOSE k \in 1..Len(PosTokens) : PosTokens[k] = last_id

\* The answer of /v2/product/list to {"last_id": last_id, "limit": limit}:
\* the next limit items of the listing after last_id (none once the listing
\* is exhausted), the total the marketplace declares, and the new last_id.
listing_answer(srv, last_id) ==
    LET pos == Position(last_id)
        ids == SubSeq(srv.listing, pos + 1, Min(pos + srv.limit, Len(srv.listing)))
    IN  SellerResult(ids, srv.total, PosToken(pos + Len(ids)))

\* The listing is finite and duplicate-free; the declared total is whatever
\* the marketplace says (it may count items the listing does not deliver,
\* or fewer than it delivers).
InitPaging ==
    /\ prog = "seller"
    /\ chan = "OZON"
    /\ server \in {[listing |-> l, limit |-> k, total |-> t] :
                      l \in IdLists, k \in 1..MaxLimit, t \in 0..MaxTotal}
    /\ pc = "fetch"
    /\ page = "" /\ product_list = <<>> /\ fetched = <<>>
    /\ watch_remnants = <<>> /\ offer_ids = <<>> /\ known = <<>>
    /\ stocks = <<>> /\ prices = <<>> /\ chunks = <<>> /\ sent = <<>>
    /\ failed = FALSE /\ requests = 0 /\ accepted = 0 /\ price_ran = {}
    /\ divIdle

\* get_product_list(last_id, ...) sends its request
SendPageRequest ==
    /\ pc = "fetch"
    /\ pc' = "await"
    /\ UNCHANGED <<prog, chan, watch_remnants, offer_ids, known, server, page,
                   product_list, fetched, stocks, prices, chunks, sent, failed,
                   requests, accepted, price_ran>>
    /\ UNCHANGED divVars

\* the answer arrives; the rest of the loop body runs, and on the break the
\* function projects the ids and returns
ReceivePage ==
    /\ pc = "await"
    /\ LET r == listing_answer(server, page)
           products == product_list \o result_items(prog, r)
       IN  /\ product_list' = products
           /\ page' = result_next(prog, r)
           /\ IF loop_breaks(prog, r, products)
              THEN /\ offer_ids' = project_offer_ids(prog, products)
                   /\ known' = offer_ids'
                   /\ pc' = after_get_offer_ids(prog)
              ELSE /\ pc' = "fetch"
                   /\ UNCHANGED <<offer_ids, known>>
    /\ UNCHANGED <<prog, chan, watch_remnants, server, fetched, stocks, prices,
                   chunks, sent, failed, requests, accepted, price_ran>>
    /\ UNCHANGED divVars

NextPaging == SendPageRequest \/ ReceivePage

\* one sequential thread whose every request is answered: the loop keeps
\* taking steps as long as it has one to take
SpecPaging == InitPaging /\ [][NextPaging]_vars /\ WF_vars(NextPaging)

(* C12: seller.get_offer_ids returns after finitely many page fetches      *)
(* whenever every fetch returns and the listing is finite - also when a    *)
(* page has no items before the declared total is reached, and when the    *)
(* accumulated count exceeds the declared total.                           *)
C12_PaginationTerminates == <>(pc = after_get_offer_ids(prog))

=============================================================================
